---- MODULE Spec2Model ----
(***************************************************************************)
(* Terminal link openers (terminalLinkOpeners.ts).                         *)
(*                                                                         *)
(* A JavaScript string is modelled as a sequence of one-character strings, *)
(* so that prefix, suffix and regular-expression tests are computed        *)
(* character by character.  The host is a POSIX host: isWindows is FALSE,  *)
(* the path separator is "/" and vs/base/common/path is its posix variant. *)
(***************************************************************************)
EXTENDS Integers, Sequences, FiniteSets, TLC

VARIABLES
    opener,        \* which opener handles the link: "search" or "local"
    pc,            \* position of the open() call
    link,          \* link.text
    folders,       \* names of the workspace folders, in order
    hasCwdCap,     \* _capabilities.has(CommandDetection)
    cwd,           \* getCwdForLine(y): [defined, value]
    os,            \* _os of the local file link opener
    hasUri,        \* link.uri is set
    matches,       \* _localLinkRegex.exec(link.text): [matched, groups]
    text,          \* open(): text
    matchLink,     \* open(): matchLink
    sanitizedLink, \* open(): sanitizedLink
    rewritten,     \* result of _updateLinkWithRelativeCwd: [defined, value]
    exactResource, \* _getExactMatch: exactResource, [defined, value]
    statCalls,     \* resources handed to _fileService.resolve
    fileStat,      \* what _fileService.resolve reported: "none", "file", "notFile"
    searchCalls,   \* queries handed to _searchService.fileSearch
    searchResults, \* results.results of the last file search
    failure,       \* which capability raised inside the try block, or "none"
    opened,        \* arguments handed to _editorService.openEditor
    shown,         \* texts handed to quickAccess.show
    thrown         \* the open() promise was rejected

vars == <<opener, pc, link, folders, hasCwdCap, cwd, os, hasUri, matches, text,
          matchLink, sanitizedLink, rewritten, exactResource, statCalls, fileStat,
          searchCalls, searchResults, failure, opened, shown, thrown>>

-----------------------------------------------------------------------------
(* Strings *)

Str0 == << >>
pathSeparator == "/"
Digits == {"0", "1", "2", "3", "4", "5", "6", "7", "8", "9"}

StartsWith(s, p) == Len(s) >= Len(p) /\ SubSeq(s, 1, Len(p)) = p
EndsWith(s, p) == Len(s) >= Len(p) /\ SubSeq(s, Len(s) - Len(p) + 1, Len(s)) = p
Drop(s, n) == SubSeq(s, n + 1, Len(s))
Take(s, n) == SubSeq(s, 1, n)
\* String.prototype.substring(0, n)
Substring0(s, n) == IF n >= Len(s) THEN s ELSE Take(s, n)
\* String.prototype.substring(n)
SubstringFrom(s, n) == IF n >= Len(s) THEN Str0 ELSE Drop(s, n)
Includes(s, c) == \E i \in 1..Len(s) : s[i] = c
AllDigits(s) == \A i \in 1..Len(s) : s[i] \in Digits

\* String.prototype.split(sep) for a one-character separator
RECURSIVE SplitFrom(_, _, _)
SplitFrom(s, c, acc) ==
    IF s = Str0 THEN <<acc>>
    ELSE IF Head(s) = c THEN <<acc>> \o SplitFrom(Tail(s), c, Str0)
    ELSE SplitFrom(Tail(s), c, Append(acc, Head(s)))
Split(s, c) == SplitFrom(s, c, Str0)

\* Array.prototype.join(sep)
RECURSIVE Join(_, _)
Join(segs, c) ==
    IF segs = << >> THEN Str0
    ELSE IF Len(segs) = 1 THEN segs[1]
    ELSE segs[1] \o <<c>> \o Join(Tail(segs), c)

\* Array.prototype.reverse()
Reverse(a) == [i \in 1..Len(a) |-> a[Len(a) + 1 - i]]

DigitVal(c) ==
    CASE c = "0" -> 0 [] c = "1" -> 1 [] c = "2" -> 2 [] c = "3" -> 3
      [] c = "4" -> 4 [] c = "5" -> 5 [] c = "6" -> 6 [] c = "7" -> 7
      [] c = "8" -> 8 [] c = "9" -> 9

\* parseInt on a non-empty string of decimal digits
RECURSIVE parseInt(_)
parseInt(s) ==
    IF Len(s) = 1 THEN DigitVal(s[1])
    ELSE 10 * parseInt(Take(s, Len(s) - 1)) + DigitVal(s[Len(s)])

-----------------------------------------------------------------------------
(* vs/base/common/path, posix variant *)

isAbsolute(path) == Len(path) > 0 /\ path[1] = "/"

\* normalizeString: drop empty and "." segments, resolve ".." against the
\* segment before it, keep leading ".." when above-root is allowed
RECURSIVE normalizeSegments(_, _, _)
normalizeSegments(segs, out, allowAboveRoot) ==
    IF segs = << >> THEN out
    ELSE LET s == Head(segs)
             rest == Tail(segs)
         IN  IF s = Str0 \/ s = <<".">> THEN normalizeSegments(rest, out, allowAboveRoot)
             ELSE IF s = <<".", ".">> THEN
                 IF out # << >> /\ out[Len(out)] # <<".", ".">>
                 THEN normalizeSegments(rest, Take(out, Len(out) - 1), allowAboveRoot)
                 ELSE IF allowAboveRoot
                 THEN normalizeSegments(rest, Append(out, s), allowAboveRoot)
                 ELSE normalizeSegments(rest, out, allowAboveRoot)
             ELSE normalizeSegments(rest, Append(out, s), allowAboveRoot)

normalize(path) ==
    IF Len(path) = 0 THEN <<".">>
    ELSE LET abs == path[1] = "/"
             trailingSeparator == path[Len(path)] = "/"
             body == Join(normalizeSegments(Split(path, "/"), << >>, ~abs), "/")
         IN  IF Len(body) = 0
             THEN (IF abs THEN <<"/">> ELSE IF trailingSeparator THEN <<".", "/">> ELSE <<".">>)
             ELSE (IF abs THEN <<"/">> ELSE Str0) \o body
                  \o (IF trailingSeparator THEN <<"/">> ELSE Str0)

-----------------------------------------------------------------------------
(* TerminalSearchLinkOpener.open: normalization of link.text *)

FileScheme == <<"f", "i", "l", "e", ":", "/", "/">>

\* text.replace(/^file:\/\/\/?/, '')
stripFileScheme(s) ==
    IF StartsWith(s, FileScheme)
    THEN (IF Len(s) > 7 /\ s[8] = "/" THEN Drop(s, 8) ELSE Drop(s, 7))
    ELSE s

\* number of leading "." characters
RECURSIVE LeadingDots(_)
LeadingDots(s) == IF s # Str0 /\ Head(s) = "." THEN 1 + LeadingDots(Tail(s)) ELSE 0

\* text.replace(/^(\.+[\\/])+/, '')
RECURSIVE stripLeadingDotDirs(_)
stripLeadingDotDirs(s) ==
    LET k == LeadingDots(s)
    IN  IF k >= 1 /\ Len(s) > k /\ s[k + 1] \in {"/", "\\"}
        THEN stripLeadingDotDirs(Drop(s, k + 1))
        ELSE s

RubyMarker == <<":", "i", "n">>

\* index of the first occurrence of p in s at or after i, 0 when there is none
RECURSIVE IndexOfFrom(_, _, _)
IndexOfFrom(s, p, i) ==
    IF i + Len(p) - 1 > Len(s) THEN 0
    ELSE IF SubSeq(s, i, i + Len(p) - 1) = p THEN i
    ELSE IndexOfFrom(s, p, i + 1)

\* the marker regex without its end anchor: text.replace(/:in/, '')
stripFirstRubyMarker(s) ==
    LET i == IndexOfFrom(s, RubyMarker, 1)
    IN  IF i = 0 THEN s ELSE Take(s, i - 1) \o Drop(s, i + 2)

\* text.replace(/:in$/, '')
stripRubyMarker(s) == IF EndsWith(s, RubyMarker) THEN Take(s, Len(s) - 3) ELSE s

\* the text before the workspace folders are scanned (lines 122-126)
cleanLinkText(t) == stripRubyMarker(stripLeadingDotDirs(normalize(stripFileScheme(t))))

\* the callback of folders.forEach (lines 130-133) for one folder
stripFolder(t, name) ==
    IF Substring0(t, Len(name) + 1) = name \o <<pathSeparator>>
    THEN SubstringFrom(t, Len(name) + 1)
    ELSE t

\* folders.forEach(...): the callback runs for every folder, in order; its
\* return statement ends one call of the callback, not the iteration
RECURSIVE stripWorkspaceFolders(_, _)
stripWorkspaceFolders(t, fs) ==
    IF fs = << >> THEN t
    ELSE stripWorkspaceFolders(stripFolder(t, Head(fs)), Tail(fs))

\* lines 120-135: link.text to text
normalizeLinkText(t, fs) == stripWorkspaceFolders(cleanLinkText(t), fs)

-----------------------------------------------------------------------------
(* TerminalSearchLinkOpener._updateLinkWithRelativeCwd *)

Undefined == [defined |-> FALSE, value |-> Str0]
Some(v) == [defined |-> TRUE, value |-> v]

\* the loop stopping at the first index that differs (a true common run)
RECURSIVE countLeadingCommonDirs(_, _, _)
countLeadingCommonDirs(cwdPath, linkPath, i) ==
    IF i > Len(cwdPath) THEN 0
    ELSE IF i <= Len(linkPath) /\ cwdPath[i] = linkPath[i]
    THEN 1 + countLeadingCommonDirs(cwdPath, linkPath, i + 1)
    ELSE 0

\* the while loop of lines 184-189: i runs over the indices of cwdPath;
\* linkPath[i] past the end of linkPath is undefined and equals no string
RECURSIVE countCommonDirs(_, _, _)
countCommonDirs(cwdPath, linkPath, i) ==
    IF i > Len(cwdPath) THEN 0
    ELSE (IF i <= Len(linkPath) /\ cwdPath[i] = linkPath[i] THEN 1 ELSE 0)
         + countCommonDirs(cwdPath, linkPath, i + 1)

\* Array.prototype.slice(n)
Slice(a, n) == IF n >= Len(a) THEN << >> ELSE SubSeq(a, n + 1, Len(a))

updateLinkWithRelativeCwd(c, t, sep) ==
    IF ~c.defined \/ c.value = Str0 THEN Undefined
    ELSE IF ~Includes(t, sep) THEN Some(c.value \o <<sep>> \o t)
    ELSE LET cwdPath == Reverse(Split(c.value, sep))
             linkPath == Split(t, sep)
             commonDirs == countCommonDirs(cwdPath, linkPath, 1)
         IN  Some(c.value \o <<sep>> \o Join(Slice(linkPath, commonDirs), sep))

\* line 137: _updateLinkWithRelativeCwd(...) || text
orText(r, t) == IF r.defined /\ r.value # Str0 THEN r.value ELSE t

-----------------------------------------------------------------------------
(* The line and column suffix of matchLink *)

\* s is \d+
IsNumber(s) == Len(s) >= 1 /\ AllDigits(s)

\* index of the first ":" at or after position i, 0 when there is none
RECURSIVE ColonFrom(_, _)
ColonFrom(s, i) ==
    IF i > Len(s) THEN 0 ELSE IF s[i] = ":" THEN i ELSE ColonFrom(s, i + 1)

\* s is \d+(:\d+)?
IsSanitizeTail(s) ==
    LET c == ColonFrom(s, 1)
    IN  IF c = 0 THEN IsNumber(s)
        ELSE IsNumber(Take(s, c - 1)) /\ IsNumber(Drop(s, c))

\* the leftmost index at which /:\d+(:\d+)?$/ matches, 0 when it does not
RECURSIVE sanitizeMatchIndex(_, _)
sanitizeMatchIndex(s, i) ==
    IF i > Len(s) THEN 0
    ELSE IF s[i] = ":" /\ IsSanitizeTail(Drop(s, i)) THEN i
    ELSE sanitizeMatchIndex(s, i + 1)

\* index of the last ":" of s, 0 when there is none
RECURSIVE LastColon(_, _)
LastColon(s, i) ==
    IF i = 0 THEN 0 ELSE IF s[i] = ":" THEN i ELSE LastColon(s, i - 1)

\* the suffix regex without its optional second group: replace(/:\d+$/, '')
sanitizeOneGroup(s) ==
    LET i == LastColon(s, Len(s))
    IN  IF i # 0 /\ IsNumber(Drop(s, i)) THEN Take(s, i - 1) ELSE s

\* matchLink.replace(/:\d+(:\d+)?$/, '')
sanitize(s) ==
    LET i == sanitizeMatchIndex(s, 1)
    IN  IF i = 0 THEN s ELSE Take(s, i - 1)

\* s is (\d+)?(:(\d+))?  -- the part of /:(\d+)?(:(\d+))?$/ after its first ":"
IsSelectionTail(s) ==
    LET c == ColonFrom(s, 1)
    IN  IF c = 0 THEN AllDigits(s)
        ELSE AllDigits(Take(s, c - 1)) /\ IsNumber(Drop(s, c))

RECURSIVE selectionMatchIndex(_, _)
selectionMatchIndex(s, i) ==
    IF i > Len(s) THEN 0
    ELSE IF s[i] = ":" /\ IsSelectionTail(Drop(s, i)) THEN i
    ELSE selectionMatchIndex(s, i + 1)

\* matchLink.match(/:(\d+)?(:(\d+))?$/): groups 1 and 3, the empty string
\* standing for an undefined group or a failed match (both are falsy)
selectionMatch(s) ==
    LET i == selectionMatchIndex(s, 1)
        tail == Drop(s, i)
        c == ColonFrom(tail, 1)
    IN  IF i = 0 THEN [line |-> Str0, column |-> Str0]
        ELSE IF c = 0 THEN [line |-> tail, column |-> Str0]
        ELSE [line |-> Take(tail, c - 1), column |-> Drop(tail, c)]

NoSelection == [defined |-> FALSE, startLineNumber |-> 0, startColumn |-> 0]

\* lines 144-155: the selection handed to openEditor
searchSelection(ml) ==
    LET m == selectionMatch(ml)
    IN  IF m.line # Str0
        THEN [defined |-> TRUE,
              startLineNumber |-> parseInt(m.line),
              startColumn |-> IF m.column # Str0 THEN parseInt(m.column) ELSE 0]
        ELSE NoSelection

-----------------------------------------------------------------------------
(* TerminalLocalFileLinkOpener.extractLineColumnInfo *)

\* terminalLocalLinkDetector: groups per line-and-column alternative, and the
\* index of the first alternative's line group for each operating system
lineAndColumnClauseGroupCount == 6
unixLineAndColumnMatchIndex == 11
winLineAndColumnMatchIndex == 12

\* matches[k] of a JavaScript array held 1-based; an index past the end and a
\* group that took no part in the match are both undefined, held as ""
MatchAt(groups, k) == IF k + 1 \in DOMAIN groups THEN groups[k + 1] ELSE Str0

lineAndColumnMatchIndex(o) ==
    IF o = "Windows" THEN winLineAndColumnMatchIndex ELSE unixLineAndColumnMatchIndex

DefaultLineColumn == [lineNumber |-> 1, columnNumber |-> 1]

\* the loop without its break: the last alternative with a line group wins
RECURSIVE scanLineColumnLast(_, _, _, _)
scanLineColumnLast(groups, base, i, count) ==
    IF i >= count THEN DefaultLineColumn
    ELSE LET lineMatchIndex == base + lineAndColumnClauseGroupCount * i
             rowNumber == MatchAt(groups, lineMatchIndex)
             columnNumber == MatchAt(groups, lineMatchIndex + 2)
             later == scanLineColumnLast(groups, base, i + 1, count)
         IN  IF rowNumber # Str0 /\ later = DefaultLineColumn
             THEN [lineNumber |-> parseInt(rowNumber),
                   columnNumber |-> IF columnNumber # Str0
                                    THEN parseInt(columnNumber) ELSE 1]
             ELSE later

\* the for loop of lines 72-84, from alternative i up to count - 1
RECURSIVE scanLineColumn(_, _, _, _)
scanLineColumn(groups, base, i, count) ==
    IF i >= count THEN DefaultLineColumn
    ELSE LET lineMatchIndex == base + lineAndColumnClauseGroupCount * i
             rowNumber == MatchAt(groups, lineMatchIndex)
             columnNumber == MatchAt(groups, lineMatchIndex + 2)
         IN  IF rowNumber # Str0
             THEN [lineNumber |-> parseInt(rowNumber),
                   columnNumber |-> IF columnNumber # Str0
                                    THEN parseInt(columnNumber) ELSE 1]
             ELSE scanLineColumn(groups, base, i + 1, count)

\* lines 60-87; m is the result of _localLinkRegex.exec(link)
extractLineColumnInfo(m, o, count) ==
    IF ~m.matched THEN DefaultLineColumn
    ELSE scanLineColumn(m.groups, lineAndColumnMatchIndex(o), 0, count)

-----------------------------------------------------------------------------
(* Inputs *)

MaxPieces == 3        \* pieces in a link text of the normalization inputs
MaxGroups == 3        \* trailing ":" groups of the line/column inputs
MaxSegments == 3      \* path segments of the cwd inputs
NumAlternatives == 2  \* alternatives of lineAndColumnClause in the model
maxResults == 2       \* line 210

\* all concatenations of at most n members of pieces
RECURSIVE Concats(_, _)
Concats(pieces, n) ==
    IF n = 0 THEN {Str0}
    ELSE LET shorter == Concats(pieces, n - 1)
         IN  shorter \cup {p \o t : p \in pieces, t \in shorter}

NormPieces ==
    { FileScheme, <<"/">>, <<".", "/">>, <<".", ".", "/">>, <<"a", "/">>,
      <<"b", "/">>, <<"a">>, <<".", "\\">>, RubyMarker }
NormTexts == Concats(NormPieces, MaxPieces) \ {Str0}
FolderLists ==
    { << >>, << <<"a">> >>, << <<"a">>, <<"b">> >>, << <<"b">>, <<"a">> >> }

GroupPieces == { <<":", "4", "2">>, <<":", "7">>, <<":">> }
GroupBases == { <<"a">>, <<"/", "a">> }
GroupTexts == {b \o g : b \in GroupBases, g \in Concats(GroupPieces, MaxGroups)}

SegmentNames == { <<"a">>, <<"b">>, Str0 }
RECURSIVE SegmentLists(_)
SegmentLists(n) ==
    IF n = 0 THEN {<< >>}
    ELSE LET shorter == SegmentLists(n - 1)
         IN  shorter \cup {<<x>> \o l : x \in SegmentNames, l \in shorter}
CwdTexts == {Join(l, "/") : l \in SegmentLists(MaxSegments) \ {<< >>}} \ {Str0}
CwdHints ==
    { Undefined, Some(Str0), Some(<<"/">>), Some(<<"/", "a">>),
      Some(<<"/", "a", "/", "b">>), Some(<<"/", "b", "/", "a">>) }

Captures == { Str0, <<"7">>, <<"4", "2">> }
\* the groups of a match: every group is "" but the line group, the group
\* after it and the column group of each alternative
GroupArrays(o) ==
    LET base == lineAndColumnMatchIndex(o)
        n == base + lineAndColumnClauseGroupCount * NumAlternatives
        slots == {base + lineAndColumnClauseGroupCount * i + d :
                      i \in 0..(NumAlternatives - 1), d \in 0..2}
    IN  {[k \in 1..n |-> IF (k - 1) \in slots THEN f[k - 1] ELSE Str0] :
             f \in [slots -> Captures]}
NoMatch == [matched |-> FALSE, groups |-> << >>]

SearchHits ==
    { [scheme |-> "file", path |-> <<"/", "w", "/", "a">>],
      [scheme |-> "file", path |-> <<"/", "w", "/", "b", "/", "a">>] }
\* results.results of a file search bounded by maxResults
SearchResultLists ==
    {l \in UNION {[1..n -> SearchHits] : n \in 0..maxResults} :
         \A i, j \in DOMAIN l : i # j => l[i] # l[j]}

-----------------------------------------------------------------------------
(* State machine *)

InitCommon ==
    /\ pc = "start"
    /\ text = Str0
    /\ matchLink = Str0
    /\ sanitizedLink = Str0
    /\ rewritten = Undefined
    /\ exactResource = Undefined
    /\ statCalls = << >>
    /\ fileStat = "none"
    /\ searchCalls = << >>
    /\ searchResults = << >>
    /\ failure = "none"
    /\ opened = << >>
    /\ shown = << >>
    /\ thrown = FALSE

\* a link handed to TerminalSearchLinkOpener.open
InitSearch ==
    /\ opener = "search"
    /\ os = "Posix"
    /\ hasUri = FALSE
    /\ matches = NoMatch
    /\ \/ /\ link \in NormTexts
          /\ folders \in FolderLists
          /\ hasCwdCap = FALSE
          /\ cwd = Undefined
       \/ /\ link \in GroupTexts
          /\ folders = << >>
          /\ hasCwdCap = FALSE
          /\ cwd = Undefined
       \/ /\ link \in CwdTexts
          /\ folders = << >>
          /\ hasCwdCap = TRUE
          /\ cwd \in CwdHints

\* link.uri of a link whose resource is resolved
LinkUri == [scheme |-> "file", path |-> <<"/", "w", "/", "a">>]

\* a link handed to TerminalLocalFileLinkOpener.open; that opener reads
\* link.text through _localLinkRegex alone, so the text is held as the
\* result of the regex, matches
InitLocal ==
    /\ opener = "local"
    /\ link = Str0
    /\ folders = << >>
    /\ hasCwdCap = FALSE
    /\ cwd = Undefined
    /\ os \in {"Windows", "Posix"}
    /\ \/ /\ hasUri = TRUE
          /\ \/ matches = NoMatch
             \/ \E g \in GroupArrays(os) : matches = [matched |-> TRUE, groups |-> g]
       \/ /\ hasUri = FALSE
          /\ matches = NoMatch

Init == InitCommon /\ (InitSearch \/ InitLocal)

FileQuery(pattern) == [filePattern |-> pattern, maxResults |-> maxResults]

\* lines 147-157
OpenExactMatch(resource) ==
    /\ opened' = Append(opened, [resource |-> resource, selection |-> searchSelection(matchLink)])
    /\ pc' = "openEditor"

\* the fallback handing over the sanitized link instead of text
ShowQuickAccessSanitized ==
    /\ shown' = Append(shown, sanitizedLink)
    /\ pc' = "done"

\* lines 162 and 165
ShowQuickAccess ==
    /\ shown' = Append(shown, text)
    /\ pc' = "done"

\* lines 119-141 and _getExactMatch up to its first await
SearchOpen ==
    /\ opener = "search" /\ pc = "start"
    /\ LET t == normalizeLinkText(link, folders)
           r == IF hasCwdCap THEN updateLinkWithRelativeCwd(cwd, t, pathSeparator) ELSE Undefined
           ml == IF hasCwdCap THEN orText(r, t) ELSE t
           sl == sanitize(ml)
       IN  /\ text' = t
           /\ rewritten' = r
           /\ matchLink' = ml
           /\ sanitizedLink' = sl
           /\ IF isAbsolute(sl)
              THEN /\ \E remote \in BOOLEAN :
                        statCalls' = Append(statCalls,
                            [scheme |-> IF remote THEN "vscode-remote" ELSE "file", path |-> sl])
                   /\ pc' = "stat"
                   /\ UNCHANGED searchCalls
              ELSE /\ searchCalls' = Append(searchCalls, FileQuery(sl))
                   /\ pc' = "search"
                   /\ UNCHANGED statCalls
    /\ UNCHANGED <<fileStat, opener, link, folders, hasCwdCap, cwd, os, hasUri, matches,
                   exactResource, searchResults, failure, opened, shown, thrown>>

\* _getExactMatch without the guard of line 205: the search follows the stat
\* whatever it reported
StatReturnsThenSearch ==
    /\ opener = "search" /\ pc = "stat"
    /\ \E isFile \in BOOLEAN :
          /\ fileStat' = IF isFile THEN "file" ELSE "notFile"
          /\ exactResource' = IF isFile THEN Some(statCalls[Len(statCalls)]) ELSE exactResource
          /\ searchCalls' = Append(searchCalls, FileQuery(sanitizedLink))
          /\ pc' = "search"
    /\ UNCHANGED <<opener, link, folders, hasCwdCap, cwd, os, hasUri, matches, text,
                   matchLink, sanitizedLink, rewritten, statCalls, searchResults,
                   failure, opened, shown, thrown>>

\* _fileService.resolve resolves: lines 200-212
StatReturns ==
    /\ opener = "search" /\ pc = "stat"
    /\ \E isFile \in BOOLEAN :
          IF isFile
          THEN /\ fileStat' = "file"
               /\ exactResource' = Some(statCalls[Len(statCalls)])
               /\ OpenExactMatch(statCalls[Len(statCalls)])
               /\ UNCHANGED searchCalls
          ELSE /\ fileStat' = "notFile"
               /\ searchCalls' = Append(searchCalls, FileQuery(sanitizedLink))
               /\ pc' = "search"
               /\ UNCHANGED <<exactResource, opened>>
    /\ UNCHANGED <<opener, link, folders, hasCwdCap, cwd, os, hasUri, matches, text,
                   matchLink, sanitizedLink, rewritten, statCalls, searchResults,
                   failure, shown, thrown>>

\* open without its catch clause: the rejection reaches the caller
StatThrowsPropagates ==
    /\ opener = "search" /\ pc = "stat"
    /\ failure' = "stat"
    /\ thrown' = TRUE
    /\ pc' = "done"
    /\ UNCHANGED <<fileStat, opener, link, folders, hasCwdCap, cwd, os, hasUri, matches,
                   text, matchLink, sanitizedLink, rewritten, exactResource, statCalls,
                   searchCalls, searchResults, opened, shown>>

\* _fileService.resolve rejects: lines 160-163
StatThrows ==
    /\ opener = "search" /\ pc = "stat"
    /\ failure' = "stat"
    /\ ShowQuickAccess
    /\ UNCHANGED <<fileStat, opener, link, folders, hasCwdCap, cwd, os, hasUri, matches, text,
                   matchLink, sanitizedLink, rewritten, exactResource, statCalls,
                   searchCalls, searchResults, opened, thrown>>

\* the first result taken whenever there is one
searchExactResourceFirst(results) ==
    IF Len(results) >= 1 THEN Some(results[1]) ELSE Undefined

\* the exact resource of lines 213-215
searchExactResource(results) ==
    IF Len(results) = 1 THEN Some(results[1]) ELSE Undefined

\* _searchService.fileSearch resolves: lines 213-217, 142-165
SearchReturns ==
    /\ opener = "search" /\ pc = "search"
    /\ \E results \in SearchResultLists :
          /\ searchResults' = results
          /\ exactResource' = searchExactResource(results)
          /\ IF exactResource'.defined
             THEN OpenExactMatch(exactResource'.value) /\ UNCHANGED shown
             ELSE ShowQuickAccess /\ UNCHANGED opened
    /\ UNCHANGED <<fileStat, opener, link, folders, hasCwdCap, cwd, os, hasUri, matches, text,
                   matchLink, sanitizedLink, rewritten, statCalls, searchCalls,
                   failure, thrown>>

\* _searchService.fileSearch rejects: lines 160-163
SearchThrows ==
    /\ opener = "search" /\ pc = "search"
    /\ failure' = "search"
    /\ ShowQuickAccess
    /\ UNCHANGED <<fileStat, opener, link, folders, hasCwdCap, cwd, os, hasUri, matches, text,
                   matchLink, sanitizedLink, rewritten, exactResource, statCalls,
                   searchCalls, searchResults, opened, thrown>>

\* lines 32-45
LocalOpen ==
    /\ opener = "local" /\ pc = "start"
    /\ IF ~hasUri
       THEN /\ thrown' = TRUE
            /\ pc' = "done"
            /\ UNCHANGED opened
       ELSE LET lineColumnInfo == extractLineColumnInfo(matches, os, NumAlternatives)
            IN  /\ opened' = Append(opened,
                       [resource |-> LinkUri,
                        selection |-> [defined |-> TRUE,
                                       startLineNumber |-> lineColumnInfo.lineNumber,
                                       startColumn |-> lineColumnInfo.columnNumber]])
                /\ pc' = "openEditor"
                /\ UNCHANGED thrown
    /\ UNCHANGED <<fileStat, opener, link, folders, hasCwdCap, cwd, os, hasUri, matches, text,
                   matchLink, sanitizedLink, rewritten, exactResource, statCalls,
                   searchCalls, searchResults, failure, shown>>

\* _editorService.openEditor resolves: lines 45 and 158
OpenEditorReturns ==
    /\ pc = "openEditor"
    /\ pc' = "done"
    /\ UNCHANGED <<fileStat, opener, link, folders, hasCwdCap, cwd, os, hasUri, matches, text,
                   matchLink, sanitizedLink, rewritten, exactResource, statCalls,
                   searchCalls, searchResults, failure, opened, shown, thrown>>

\* _editorService.openEditor rejects: inside the try block of the search
\* opener (lines 160-163), unguarded in the local file opener (line 42)
OpenEditorThrows ==
    /\ pc = "openEditor"
    /\ IF opener = "search"
       THEN /\ failure' = "openEditor"
            /\ ShowQuickAccess
            /\ UNCHANGED thrown
       ELSE /\ thrown' = TRUE
            /\ pc' = "done"
            /\ UNCHANGED <<failure, shown>>
    /\ UNCHANGED <<fileStat, opener, link, folders, hasCwdCap, cwd, os, hasUri, matches, text,
                   matchLink, sanitizedLink, rewritten, exactResource, statCalls,
                   searchCalls, searchResults, opened>>

Next ==
    \/ SearchOpen
    \/ StatReturns
    \/ StatThrows
    \/ SearchReturns
    \/ SearchThrows
    \/ LocalOpen
    \/ OpenEditorReturns
    \/ OpenEditorThrows

Spec == Init /\ [][Next]_vars

-----------------------------------------------------------------------------
(* Properties *)

Searching == opener = "search" /\ pc # "start"
\* the file search was issued and has produced its results
SearchReturned ==
    /\ searchCalls # << >>
    /\ pc \in {"openEditor", "done"}
    /\ failure # "search"
\* open has ended and no exact match was opened
EndedWithoutMatch ==
    /\ opener = "search" /\ pc = "done"
    /\ ~exactResource.defined \/ failure # "none"

\* C1 (as stated): whenever open ends without an exact match, the text handed
\* to quickAccess.show is the original link text, before any stripping.
C1_HintIsOriginalText ==
    EndedWithoutMatch => shown = <<link>>

\* C1 (amended): whenever open ends without an exact match, exactly one text
\* is handed to quickAccess.show and it is the normalized text: link.text
\* after the scheme prefix, the leading ./ and ../, the trailing :in and the
\* workspace folder prefixes are stripped; when open ends with the exact
\* match opened, nothing is shown.
C1_HintIsNormalizedText ==
    /\ EndedWithoutMatch => shown = <<normalizeLinkText(link, folders)>>
    /\ (opener = "search" /\ pc = "done" /\ ~EndedWithoutMatch) => shown = << >>

C1_Witness ==
    /\ EndedWithoutMatch
    /\ failure = "none"
    /\ searchResults = << >>
    /\ StartsWith(link, <<".", "/">>)
    /\ EndsWith(link, RubyMarker)
    /\ shown # << >>
    /\ shown[1] # link
    /\ shown[1] # Str0

\* C2: if the sanitized path is absolute and the stat reports a file, the
\* exact match is the resource built from that path and the file search is
\* never invoked; the search is invoked only when the path is not absolute
\* or the stat did not report a file.
C2_FileStatSkipsSearch ==
    Searching =>
        /\ fileStat = "file" =>
              /\ isAbsolute(sanitizedLink)
              /\ exactResource.defined
              /\ exactResource.value.path = sanitizedLink
              /\ exactResource.value = statCalls[1]
              /\ searchCalls = << >>
        /\ searchCalls # << >> => (~isAbsolute(sanitizedLink) \/ fileStat = "notFile")
        /\ Len(searchCalls) <= 1 /\ Len(statCalls) <= 1

C2_Witness ==
    /\ opener = "search" /\ pc = "done"
    /\ fileStat = "file"
    /\ failure = "none"
    /\ opened # << >>

\* C3: when the bounded file search (maxResults = 2) has returned, there is
\* an exact match if and only if it returned exactly one result, the match
\* is that result's resource and it is what is opened; zero or two results
\* give no exact match, open no file and show the interactive search.
C3_ExactMatchIffOneResult ==
    /\ \A i \in DOMAIN searchCalls : searchCalls[i].maxResults = 2
    /\ SearchReturned =>
          /\ exactResource.defined <=> Len(searchResults) = 1
          /\ Len(searchResults) = 1 =>
                /\ exactResource.value = searchResults[1]
                /\ Len(opened) = 1 /\ opened[1].resource = searchResults[1]
          /\ Len(searchResults) # 1 => (opened = << >> /\ shown = <<text>>)

C3_Witness ==
    /\ SearchReturned
    /\ Len(searchResults) = 2
    /\ shown # << >>

\* C4: when the stat or the search capability raises an error, open does not
\* reject: it ends showing the interactive search with the same text as for
\* an ambiguous or missing result, and opens no file.
C4_CapabilityFailureFallsBack ==
    failure \in {"stat", "search"} =>
        /\ ~thrown
        /\ pc = "done"
        /\ shown = <<normalizeLinkText(link, folders)>>
        /\ opened = << >>

C4_Witness ==
    /\ failure = "stat"
    /\ pc = "done"
    /\ shown # << >>

\* the scan that stops at the first folder whose name is a prefix
RECURSIVE stripFirstMatchingFolder(_, _)
stripFirstMatchingFolder(t, fs) ==
    IF fs = << >> THEN t
    ELSE IF StartsWith(t, Head(fs) \o <<pathSeparator>>)
    THEN Drop(t, Len(Head(fs)) + 1)
    ELSE stripFirstMatchingFolder(t, Tail(fs))

\* C5: the workspace folders are scanned in order and at most one folder-name
\* prefix is removed: after the first folder that strips, no later folder
\* strips anything.
C5_AtMostOneFolderPrefixRemoved ==
    Searching => text = stripFirstMatchingFolder(cleanLinkText(link), folders)

\* nothing is left in t for a stage of the normalization to strip
NothingLeftToStrip(t, fs) ==
    /\ t # Str0
    /\ ~EndsWith(t, RubyMarker)
    /\ ~EndsWith(t, <<"/", ".">>) /\ ~EndsWith(t, <<"/", ".", ".">>)
    /\ ~(\E k \in 1..Len(t) :
            /\ \A j \in 1..k : t[j] = "."
            /\ k < Len(t) /\ t[k + 1] \in {"/", "\\"})
    /\ \A i \in DOMAIN fs : ~StartsWith(t, fs[i] \o <<pathSeparator>>)

\* C6 (as stated): the normalization is idempotent for every link text and
\* every list of workspace folders.
C6_NormalizationIdempotent ==
    Searching => normalizeLinkText(text, folders) = text

\* C6 (amended): the normalization of its own output returns that output
\* whenever the output is not empty, does not end in :in, in /. or in /..,
\* and does not start with a run of dots and a separator nor with a
\* workspace folder name and the separator.
C6_IdempotentOnceNothingToStrip ==
    (Searching /\ NothingLeftToStrip(text, folders)) =>
        normalizeLinkText(text, folders) = text

C6_Witness ==
    /\ Searching
    /\ NothingLeftToStrip(text, folders)
    /\ folders # << >>
    /\ text # cleanLinkText(link)
    /\ cleanLinkText(link) # link

\* the line/column pair the claim describes for a match result
ExpectedLineColumn(m, o) ==
    LET base == IF o = "Windows" THEN winLineAndColumnMatchIndex
                ELSE unixLineAndColumnMatchIndex
        lineAt(i) == MatchAt(m.groups, base + lineAndColumnClauseGroupCount * i)
        columnAt(i) == MatchAt(m.groups, base + lineAndColumnClauseGroupCount * i + 2)
        withLine == {i \in 0..(NumAlternatives - 1) : lineAt(i) # Str0}
    IN  IF ~m.matched \/ withLine = {} THEN [lineNumber |-> 1, columnNumber |-> 1]
        ELSE LET first == CHOOSE i \in withLine : \A j \in withLine : i <= j
             IN  [lineNumber |-> parseInt(lineAt(first)),
                  columnNumber |-> IF columnAt(first) # Str0
                                   THEN parseInt(columnAt(first)) ELSE 1]

\* C7: extractLineColumnInfo returns line 1, column 1 when the regex does not
\* match or no alternative has a line capture; otherwise the line of the
\* first alternative with a line capture and the column captured two groups
\* later (1 when that is empty); later alternatives do not affect the result.
C7_FirstAlternativeWins ==
    (opener = "local" /\ pc # "start" /\ hasUri) =>
        /\ Len(opened) = 1
        /\ opened[1].selection.startLineNumber = ExpectedLineColumn(matches, os).lineNumber
        /\ opened[1].selection.startColumn = ExpectedLineColumn(matches, os).columnNumber

C7_Witness ==
    /\ opener = "local" /\ pc # "start" /\ hasUri /\ matches.matched
    /\ MatchAt(matches.groups, lineAndColumnMatchIndex(os)) = Str0
    /\ MatchAt(matches.groups, lineAndColumnMatchIndex(os) + lineAndColumnClauseGroupCount) # Str0
    /\ MatchAt(matches.groups, lineAndColumnMatchIndex(os) + lineAndColumnClauseGroupCount + 2) = Str0
    /\ opened[1].selection.startLineNumber = 42
    /\ opened[1].selection.startColumn = 1

\* C8: every position handed to openEditor, by either opener, has a line of
\* at least 1 and a column of at least 1 (a column the link text does not
\* give is 1).
C8_PositionsAreOneBased ==
    \A i \in DOMAIN opened :
        opened[i].selection.defined =>
            /\ opened[i].selection.startLineNumber >= 1
            /\ opened[i].selection.startColumn >= 1

\* s ends in :digits
EndsInNumericGroup(s) ==
    \E i \in 1..Len(s) : s[i] = ":" /\ IsNumber(Drop(s, i))

\* the number of :digits groups s ends with
RECURSIVE TrailingGroups(_)
TrailingGroups(s) ==
    IF EndsInNumericGroup(s)
    THEN 1 + TrailingGroups(Take(s, (CHOOSE i \in 1..Len(s) :
                                        s[i] = ":" /\ IsNumber(Drop(s, i))) - 1))
    ELSE 0

\* C9 (as stated): the sanitized path that is stat-ed and searched for never
\* ends in :digits, whatever the candidate text.
C9_SanitizedHasNoNumericSuffix ==
    Searching => ~EndsInNumericGroup(sanitizedLink)

\* C9 (amended): the single strip removes the last two :digits groups of the
\* candidate, or the only one; the sanitized path does not end in :digits
\* when the candidate ends in at most two such groups, and keeps all but the
\* last two when it ends in three or more.
C9_SanitizeStripsAtMostTwoGroups ==
    Searching =>
        /\ TrailingGroups(matchLink) <= 2 => ~EndsInNumericGroup(sanitizedLink)
        /\ TrailingGroups(matchLink) >= 3 =>
              TrailingGroups(sanitizedLink) = TrailingGroups(matchLink) - 2
        /\ StartsWith(matchLink, sanitizedLink)
        /\ \A i \in DOMAIN statCalls : statCalls[i].path = sanitizedLink
        /\ \A i \in DOMAIN searchCalls : searchCalls[i].filePattern = sanitizedLink

C9_Witness ==
    /\ Searching
    /\ TrailingGroups(matchLink) = 2
    /\ sanitizedLink # matchLink
    /\ searchCalls # << >>

\* what the claim says _updateLinkWithRelativeCwd returns
ExpectedRewrite(c, t) ==
    LET cwdSegments == Reverse(Split(c.value, pathSeparator))
        candidateSegments == Split(t, pathSeparator)
        matchCount == Cardinality({i \in 1..Len(cwdSegments) :
                          i <= Len(candidateSegments)
                          /\ cwdSegments[i] = candidateSegments[i]})
    IN  IF ~c.defined \/ c.value = Str0 THEN Undefined
        ELSE IF \A i \in 1..Len(t) : t[i] # pathSeparator
        THEN Some(c.value \o <<pathSeparator>> \o t)
        ELSE Some(c.value \o <<pathSeparator>>
                  \o Join(SubSeq(candidateSegments, matchCount + 1, Len(candidateSegments)),
                          pathSeparator))

\* C10: _updateLinkWithRelativeCwd returns nothing when there is no cwd hint,
\* cwd + separator + candidate when the candidate has no separator, and
\* otherwise cwd + separator + the candidate segments from index matchCount
\* on, matchCount counting every index of the reversed cwd segments at which
\* the candidate has the same segment (contiguous or not, and no index past
\* the end of the candidate).
C10_RewriteSplicesAfterPositionalMatches ==
    (Searching /\ hasCwdCap) =>
        /\ rewritten = ExpectedRewrite(cwd, text)
        /\ matchLink = (IF rewritten.defined THEN rewritten.value ELSE text)

C10_Witness ==
    /\ Searching /\ hasCwdCap /\ rewritten.defined
    /\ LET cwdSegments == Reverse(Split(cwd.value, pathSeparator))
           candidateSegments == Split(text, pathSeparator)
       IN  /\ Len(candidateSegments) >= 2
           /\ Len(cwdSegments) > Len(candidateSegments)
           /\ cwdSegments[1] # candidateSegments[1]
           /\ cwdSegments[2] = candidateSegments[2]

====
